---- MODULE Spec2Model ----
(***************************************************************************)
(* A model of folder_creator: the path processor (path-processor.ts), the  *)
(* tree builder (tree-builder.ts), the archive writer (zip-generator.ts)   *)
(* and the "copy cleaned list" handler of the app.                         *)
(*                                                                         *)
(* A JavaScript string is a sequence of tokens, each a TLA+ string.  The   *)
(* characters of the user's input are one-character tokens; the literal    *)
(* texts the code splices into a message are kept as one token each.       *)
(***************************************************************************)
EXTENDS Integers, Sequences, FiniteSets, TLC

\* ------------------------------------------------------------------ bounds

\* Longest string handed to the pure functions (normalizePath, ...).
MaxLen == 4
\* Most lines of an enumerated input.
MaxLines == 3

\* ------------------------------------------------------- program constants

MAX_DEPTH == 30
MAX_LINES == 5000
MAX_NAME == 255

\* INVALID_CHARS = /[<>:"|?*\x00-\x1F]/ ; of the control characters the
\* model carries the tab and the carriage return.
ControlChars == {"\t", "\r"}
INVALID_CHARS == {"<", ">", ":", "\"", "|", "?", "*"} \cup ControlChars

\* What String.prototype.trim removes (the characters of it the model carries).
WhiteSpace == {" ", "\t", "\r"}

\* ------------------------------------------------------------ string helpers

\* The elements of s at the indices in idx, in order.
PickIdx(s, idx) ==
  LET F[i \in 0..Len(s)] ==
        IF i = 0 THEN <<>>
        ELSE IF i \in idx THEN Append(F[i - 1], s[i]) ELSE F[i - 1]
  IN F[Len(s)]

\* String.prototype.split(sep) for a one-character separator: "" gives [""].
RECURSIVE Split(_, _)
Split(s, sep) ==
  LET hits == {i \in 1..Len(s) : s[i] = sep} IN
  IF hits = {} THEN <<s>>
  ELSE LET i == CHOOSE j \in hits : \A k \in hits : j <= k
       IN <<SubSeq(s, 1, i - 1)>> \o Split(SubSeq(s, i + 1, Len(s)), sep)

\* Array.prototype.join(sep).
RECURSIVE Join(_, _)
Join(parts, sep) ==
  IF Len(parts) = 0 THEN <<>>
  ELSE IF Len(parts) = 1 THEN parts[1]
  ELSE parts[1] \o <<sep>> \o Join(Tail(parts), sep)

\* String.prototype.trim.
Trim(s) ==
  LET keep == {i \in 1..Len(s) : s[i] \notin WhiteSpace} IN
  IF keep = {} THEN <<>>
  ELSE LET lo == CHOOSE i \in keep : \A k \in keep : i <= k
           hi == CHOOSE i \in keep : \A k \in keep : i >= k
       IN SubSeq(s, lo, hi)

\* path.replace(/\\/g, '/')
BackslashesToSlashes(s) == [i \in 1..Len(s) |-> IF s[i] = "\\" THEN "/" ELSE s[i]]

\* A faulty variant of CollapseSlashes: runs of slashes are left alone.
NoCollapse(s) == s

\* path.replace(/\/+/g, '/')
CollapseSlashes(s) ==
  PickIdx(s, {i \in 1..Len(s) : ~(s[i] = "/" /\ i > 1 /\ s[i - 1] = "/")})

\* path.replace(/^\/+|\/+$/g, '')
StripSlashes(s) ==
  LET keep == {i \in 1..Len(s) : s[i] # "/"} IN
  IF keep = {} THEN <<>>
  ELSE LET lo == CHOOSE i \in keep : \A k \in keep : i <= k
           hi == CHOOSE i \in keep : \A k \in keep : i >= k
       IN SubSeq(s, lo, hi)

\* ------------------------------------------------------------ normalizePath

\* A faulty variant of HasParentRef: `..` is let through.
NoParentCheck(parts) == FALSE

\* parts.some(p => p === '..')
HasParentRef(parts) == \E i \in 1..Len(parts) : parts[i] = <<".", ".">>

\* normalizePath: threw is TRUE when the function throws, and value is what
\* it returns otherwise.
normalizePath(path) ==
  LET p1 == BackslashesToSlashes(path)
      p2 == CollapseSlashes(p1)
      p3 == StripSlashes(p2)
      parts == SelectSeq(Split(p3, "/"), LAMBDA p : p # <<".">>)
  IN [threw |-> HasParentRef(parts),
      value |-> IF HasParentRef(parts) THEN <<>> ELSE Join(parts, "/")]

\* ------------------------------------------------- sanitize / validate names

\* name.replace(INVALID_CHARS, '-'): the pattern has no g flag, so only the
\* first match is replaced.
sanitizeFileName(name) ==
  LET hits == {i \in 1..Len(name) : name[i] \in INVALID_CHARS} IN
  IF hits = {} THEN name
  ELSE LET i == CHOOSE j \in hits : \A k \in hits : j <= k
       IN [name EXCEPT ![i] = "-"]

Lowers == <<"a","b","c","d","e","f","g","h","i","j","k","l","m",
            "n","o","p","q","r","s","t","u","v","w","x","y","z">>
Uppers == <<"A","B","C","D","E","F","G","H","I","J","K","L","M",
            "N","O","P","Q","R","S","T","U","V","W","X","Y","Z">>

ToUpper(c) ==
  IF \E i \in 1..Len(Lowers) : Lowers[i] = c
  THEN Uppers[CHOOSE i \in 1..Len(Lowers) : Lowers[i] = c]
  ELSE c

Digits1to9 == {"1", "2", "3", "4", "5", "6", "7", "8", "9"}

\* RESERVED_NAMES = /^(CON|PRN|AUX|NUL|COM[1-9]|LPT[1-9])(\.|$)/i
ReservedStems ==
  {<<"C","O","N">>, <<"P","R","N">>, <<"A","U","X">>, <<"N","U","L">>}
  \cup {<<"C","O","M",d>> : d \in Digits1to9}
  \cup {<<"L","P","T",d>> : d \in Digits1to9}

RESERVED_NAMES(name) ==
  \E r \in ReservedStems :
    /\ Len(name) >= Len(r)
    /\ [i \in 1..Len(r) |-> ToUpper(name[i])] = r
    /\ (Len(name) = Len(r) \/ name[Len(r) + 1] = ".")

\* validateFileName: hasSanitized tells whether the result carries `sanitized`.
validateFileName(name) ==
  IF name = <<>> \/ Trim(name) = <<>>
  THEN [valid |-> FALSE, hasSanitized |-> FALSE, sanitized |-> <<>>,
        issue |-> <<"Empty name">>]
  ELSE IF \E i \in 1..Len(name) : name[i] \in INVALID_CHARS
  THEN [valid |-> FALSE, hasSanitized |-> TRUE, sanitized |-> sanitizeFileName(name),
        issue |-> <<"Contains invalid characters">>]
  ELSE IF RESERVED_NAMES(name)
  THEN [valid |-> FALSE, hasSanitized |-> FALSE, sanitized |-> <<>>,
        issue |-> <<"Reserved name">>]
  ELSE IF Len(name) > MAX_NAME
  THEN [valid |-> FALSE, hasSanitized |-> FALSE, sanitized |-> <<>>,
        issue |-> <<"Name too long">>]
  ELSE [valid |-> TRUE, hasSanitized |-> FALSE, sanitized |-> <<>>, issue |-> <<>>]

\* ------------------------------------------------------------- processPaths

\* A PathIssue; line 0 stands for an absent line.
Issue(type, path, message, line) ==
  [type |-> type, path |-> path, message |-> message, line |-> line]

\* existingLines.slice(0, -1).join(', ')
RECURSIVE JoinNums(_)
JoinNums(nums) ==
  IF Len(nums) = 0 THEN <<>>
  ELSE IF Len(nums) = 1 THEN <<ToString(nums[1])>>
  ELSE <<ToString(nums[1]), ", ">> \o JoinNums(Tail(nums))

\* The body of segments.forEach: the issue one segment adds to entryIssues.
SegmentIssue(segment, originalLine) ==
  LET validation == validateFileName(segment) IN
  IF validation.valid THEN <<>>
  ELSE IF validation.hasSanitized /\ validation.sanitized # <<>>
  THEN <<Issue("sanitized", segment,
               <<"Sanitized: \"">> \o segment \o <<"\" -> \"">>
                 \o validation.sanitized \o <<"\"">>,
               originalLine)>>
  ELSE <<Issue(IF validation.issue = <<"Reserved name">> THEN "reserved" ELSE "invalid",
               segment,
               IF validation.issue # <<>> THEN validation.issue ELSE <<"Invalid name">>,
               originalLine)>>

RECURSIVE SegmentIssues(_, _)
SegmentIssues(segments, originalLine) ==
  IF Len(segments) = 0 THEN <<>>
  ELSE SegmentIssue(Head(segments), originalLine)
         \o SegmentIssues(Tail(segments), originalLine)

KindName(isDirectory) == IF isDirectory THEN "directory" ELSE "file"

\* A faulty variant of ShouldAppend: every line pushes an entry.
AlwaysAppend(hasExisting, isDirectory, existingIsDirectory) == TRUE

\* The condition under which the line's entry is pushed onto entries.
ShouldAppend(hasExisting, isDirectory, existingIsDirectory) ==
  ~hasExisting \/ (isDirectory /\ ~existingIsDirectory)

\* A faulty variant of ShouldUpgrade: the existing entry is never upgraded.
NeverUpgrade(isDirectory, existingIsDirectory) == FALSE

\* "Prefer directory on conflict": whether the existing entry is upgraded.
ShouldUpgrade(isDirectory, existingIsDirectory) ==
  isDirectory /\ ~existingIsDirectory

\* The state of one run of processPaths before any line is handled; nLines
\* is lines.length.
StartState(nLines) ==
  [issues |-> IF nLines > MAX_LINES
              THEN <<Issue("depth", <<>>,
                           <<"Input exceeds ", ToString(MAX_LINES),
                             " lines. Processing anyway, but performance may be affected.">>,
                           0)>>
              ELSE <<>>,
   entries |-> <<>>,
   seenPaths |-> <<>>,
   pathToEntry |-> <<>>]

\* One call of the lines.forEach callback: index is 0-based, as in the code.
\* seenPaths and pathToEntry are functions on the paths set so far;
\* pathToEntry holds the position of the entry object in entries.
ProcessLine(st, line, index) ==
  LET trimmed == Trim(line) IN
  IF trimmed = <<>> THEN st
  ELSE
  LET originalLine == index + 1
      isDirectory == trimmed[Len(trimmed)] = "/"
      raw == IF isDirectory THEN SubSeq(trimmed, 1, Len(trimmed) - 1) ELSE trimmed
      norm == normalizePath(raw)
  IN
  IF norm.threw
  THEN [st EXCEPT !.issues =
          Append(@, Issue("invalid", trimmed,
                          <<"Parent directory references (..) are not allowed">>,
                          originalLine))]
  ELSE IF norm.value = <<>> THEN st
  ELSE
  LET path == norm.value
      segments == Split(path, "/")
      depthIssues ==
        IF Len(segments) > MAX_DEPTH
        THEN <<Issue("depth", path,
                     <<"Path depth exceeds ", ToString(MAX_DEPTH), " levels">>,
                     originalLine)>>
        ELSE <<>>
      seen == path \in DOMAIN st.seenPaths
      existingLines == IF seen THEN Append(st.seenPaths[path], originalLine)
                       ELSE <<originalLine>>
      duplicateIssues ==
        IF seen
        THEN <<Issue("duplicate", path,
                     <<"Duplicate path (also on lines: ">>
                       \o JoinNums(SubSeq(existingLines, 1, Len(existingLines) - 1))
                       \o <<")">>,
                     originalLine)>>
        ELSE <<>>
      hasExisting == path \in DOMAIN st.pathToEntry
      at == IF hasExisting THEN st.pathToEntry[path] ELSE 0
      existingIsDirectory == hasExisting /\ st.entries[at].isDirectory
      conflict == hasExisting /\ existingIsDirectory # isDirectory
      conflictIssues ==
        IF conflict
        THEN <<Issue("conflict", path,
                     <<"Conflict: defined as both ", KindName(existingIsDirectory),
                       " and ", KindName(isDirectory)>>,
                     originalLine)>>
        ELSE <<>>
      upgrade == conflict /\ ShouldUpgrade(isDirectory, existingIsDirectory)
      entries1 ==
        IF upgrade
        THEN [st.entries EXCEPT ![at] =
                [@ EXCEPT !.isDirectory = TRUE,
                          !.issues = Append(@, Issue("conflict", path,
                                                     <<"Resolved: treating as directory">>,
                                                     st.entries[at].originalLine))]]
        ELSE st.entries
      entryIssues == SegmentIssues(segments, originalLine)
                       \o duplicateIssues \o conflictIssues
      entry == [path |-> path, isDirectory |-> isDirectory,
                originalLine |-> originalLine, issues |-> entryIssues]
      append == ShouldAppend(hasExisting, isDirectory,
                             hasExisting /\ entries1[at].isDirectory)
  IN
  [issues |-> st.issues \o depthIssues \o entryIssues,
   entries |-> IF append THEN Append(entries1, entry) ELSE entries1,
   seenPaths |-> [p \in DOMAIN st.seenPaths \cup {path} |->
                    IF p = path THEN existingLines ELSE st.seenPaths[p]],
   pathToEntry |-> IF append
                   THEN [p \in DOMAIN st.pathToEntry \cup {path} |->
                           IF p = path THEN Len(entries1) + 1 ELSE st.pathToEntry[p]]
                   ELSE st.pathToEntry]

\* A faulty variant of CountWhere: every entry is counted.
CountAll(entries, isDirectory) == Len(entries)

\* entries.filter(e => e.isDirectory).length, and the same for files.
CountWhere(entries, isDirectory) ==
  Cardinality({i \in 1..Len(entries) : entries[i].isDirectory = isDirectory})

\* lines.forEach(callback): after[i] is the state once the callback has run
\* on the first i lines.
ForEach(split) ==
  LET after[i \in 0..Len(split)] ==
        IF i = 0 THEN StartState(Len(split))
        ELSE ProcessLine(after[i - 1], split[i], i - 1)
  IN after[Len(split)]

\* What processPaths returns from the state the loop ends in.
Processed(st) ==
  [entries |-> st.entries, issues |-> st.issues,
   folderCount |-> CountWhere(st.entries, TRUE),
   fileCount |-> CountWhere(st.entries, FALSE)]

\* processPaths(input), the input given as a string.
processPaths(input) ==
  Processed(ForEach(Split(input, "\n")))

\* ---------------------------------------------------------------- buildTree

\* String.prototype.localeCompare on the characters the model carries: the
\* order of the root collation (white space, punctuation, symbols, digits,
\* letters), letters compared without case first, then by their accents, and
\* lower case before upper case on a tie.  Strings that are canonically
\* equivalent compare equal, as ECMA-262 requires of localeCompare: the
\* letter U+00E9 and the letter e followed by the combining accent U+0301.
CollationOrder ==
  <<"\t", "\n", "\r", " ", "_", "-", ",", ";", ":", "!", "?", ".", "\"",
    "(", ")", "[", "]", "{", "}", "@", "*", "/", "\\", "&", "#", "%", "^",
    "+", "<", "=", ">", "|", "~", "$",
    "0", "1", "2", "3", "4", "5", "6", "7", "8", "9">> \o Lowers

IsUpper(c) == \E i \in 1..Len(Uppers) : Uppers[i] = c

ToLower(c) ==
  IF IsUpper(c) THEN Lowers[CHOOSE i \in 1..Len(Uppers) : Uppers[i] = c] ELSE c

\* The place of each character in CollationOrder.
PlaceOf ==
  [c \in {CollationOrder[i] : i \in 1..Len(CollationOrder)} |->
     CHOOSE i \in 1..Len(CollationOrder) : CollationOrder[i] = c]

PrimaryWeight(c) ==
  IF c \in DOMAIN PlaceOf THEN PlaceOf[c]
  ELSE IF ToLower(c) \in DOMAIN PlaceOf THEN PlaceOf[ToLower(c)]
  ELSE 0

\* The combining marks, which have no primary weight.
Combining == {"U+0301"}

\* The canonical decomposition of a character.
Decompose(c) == IF c = "U+00E9" THEN <<"e", "U+0301">> ELSE <<c>>

RECURSIVE NFD(_)
NFD(s) == IF s = <<>> THEN <<>> ELSE Decompose(Head(s)) \o NFD(Tail(s))

\* -1, 0 or 1: the lexicographic comparison of two sequences of numbers.
RECURSIVE CompareNums(_, _)
CompareNums(a, b) ==
  IF Len(a) = 0 /\ Len(b) = 0 THEN 0
  ELSE IF Len(a) = 0 THEN -1
  ELSE IF Len(b) = 0 THEN 1
  ELSE IF a[1] < b[1] THEN -1
  ELSE IF a[1] > b[1] THEN 1
  ELSE CompareNums(Tail(a), Tail(b))

\* The collation key of a string: the weights of its letters without case,
\* then of their marks, then of their case.
RECURSIVE CollationKey(_, _)
CollationKey(s, level) ==
  IF s = <<>> THEN <<>>
  ELSE IF Head(s) \in Combining THEN CollationKey(Tail(s), level)
  ELSE <<IF level = "primary" THEN PrimaryWeight(Head(s))
         ELSE IF level = "accent"
         THEN (IF Len(s) > 1 /\ s[2] \in Combining THEN 1 ELSE 0)
         ELSE (IF IsUpper(Head(s)) THEN 1 ELSE 0)>>
       \o CollationKey(Tail(s), level)

\* The comparison of two decomposed strings, level by level.
CompareStrings(x, y) ==
  LET primary == CompareNums(CollationKey(x, "primary"), CollationKey(y, "primary"))
      accent == CompareNums(CollationKey(x, "accent"), CollationKey(y, "accent"))
  IN IF primary # 0 THEN primary
     ELSE IF accent # 0 THEN accent
     ELSE CompareNums(CollationKey(x, "case"), CollationKey(y, "case"))

localeCompare(a, b) ==
  CHOOSE c \in {CompareStrings(x, y) : x \in {NFD(a)}, y \in {NFD(b)}} : TRUE

\* The comparator of both sorts of buildTree: directories first, then by
\* key, the path of an entry or the name of a node.
Compare(a, b) ==
  IF a.isDirectory # b.isDirectory
  THEN (IF a.isDirectory THEN -1 ELSE 1)
  ELSE localeCompare(a.key, b.key)

\* Array.prototype.sort(Compare), which is stable: x goes after the last
\* element that does not compare greater than it.
InsertSorted(sorted, x) ==
  LET le == {j \in 1..Len(sorted) : Compare(sorted[j], x) <= 0}
      k == IF le = {} THEN 0 ELSE CHOOSE j \in le : \A m \in le : j >= m
  IN SubSeq(sorted, 1, k) \o <<x>> \o SubSeq(sorted, k + 1, Len(sorted))

Sort(s) ==
  LET F[i \in 0..Len(s)] ==
        IF i = 0 THEN <<>> ELSE InsertSorted(F[i - 1], s[i])
  IN F[Len(s)]

\* A faulty variant of SortEntries: the entries are walked as they come.
KeepOrder(entries) == entries

\* [...entries].sort(...)
SortEntries(entries) ==
  LET keyed == Sort([k \in 1..Len(entries) |->
                       [isDirectory |-> entries[k].isDirectory,
                        key |-> entries[k].path, item |-> entries[k]]])
  IN [k \in 1..Len(keyed) |-> keyed[k].item]

\* node.children.sort(...), the children held as paths into nodes.
SortChildren(nodes, children) ==
  LET keyed == Sort([k \in 1..Len(children) |->
                       [isDirectory |-> nodes[children[k]].isDirectory,
                        key |-> nodes[children[k]].name, item |-> children[k]]])
  IN [k \in 1..Len(keyed) |-> keyed[k].item]

Node(name, path, isDirectory, issues) ==
  [name |-> name, path |-> path, isDirectory |-> isDirectory,
   children |-> <<>>, issues |-> issues]

\* The tree is nodeMap: each node under its path, the root under the empty
\* path, and a node's children held as the sequence of their paths.
RootOnly == [p \in {<<>>} |-> Node(<<>>, <<>>, TRUE, <<>>)]

\* nodeMap.set(segmentPath, node); parent.children.push(node)
AddNode(nodes, parent, node) ==
  [p \in DOMAIN nodes \cup {node.path} |->
     IF p = node.path THEN node
     ELSE IF p = parent THEN [nodes[p] EXCEPT !.children = Append(@, node.path)]
     ELSE nodes[p]]

\* The inner loop of buildTree over parts[i..], for one entry.
RECURSIVE WalkParts(_, _, _, _, _, _)
WalkParts(nodes, entry, parts, i, currentPath, parent) ==
  IF i > Len(parts) THEN nodes
  ELSE
  LET part == parts[i]
      isLast == i = Len(parts)
      segmentPath == IF currentPath # <<>> THEN currentPath \o <<"/">> \o part ELSE part
  IN
  IF segmentPath \notin DOMAIN nodes
  THEN IF ~isLast \/ entry.isDirectory
       THEN WalkParts(AddNode(nodes, parent, Node(part, segmentPath, TRUE, <<>>)),
                      entry, parts, i + 1, segmentPath, segmentPath)
       ELSE AddNode(nodes, parent, Node(part, segmentPath, FALSE, entry.issues))
  ELSE IF isLast /\ ~entry.isDirectory
  THEN WalkParts([nodes EXCEPT ![segmentPath].issues = @ \o entry.issues],
                 entry, parts, i + 1, segmentPath, segmentPath)
  ELSE WalkParts(nodes, entry, parts, i + 1, segmentPath, segmentPath)

\* The loop over the sorted entries.
RECURSIVE InsertEntries(_, _, _)
InsertEntries(nodes, sorted, k) ==
  IF k > Len(sorted) THEN nodes
  ELSE InsertEntries(
         WalkParts(nodes, sorted[k],
                   SelectSeq(Split(sorted[k].path, "/"), LAMBDA p : p # <<>>),
                   1, <<>>, <<>>),
         sorted, k + 1)

\* sortTree: every node is reached from the root, so every node's children
\* are sorted.
sortTree(nodes) ==
  [p \in DOMAIN nodes |->
     [nodes[p] EXCEPT !.children = SortChildren(nodes, @)]]

buildTree(entries) ==
  sortTree(InsertEntries(RootOnly, SortEntries(entries), 1))

\* -------------------------------------------------------------- generateZip

\* addNode: the zip.file calls made for the node at path p, in order.
RECURSIVE addNode(_, _, _)
RECURSIVE addChildren(_, _, _, _)
addChildren(nodes, children, k, zipPath) ==
  IF k > Len(children) THEN <<>>
  ELSE addNode(nodes, children[k], zipPath) \o addChildren(nodes, children, k + 1, zipPath)

addNode(nodes, p, zipPath) ==
  LET node == nodes[p] IN
  IF node.path = <<>> THEN addChildren(nodes, node.children, 1, <<>>)
  ELSE
  LET currentPath == IF zipPath # <<>> THEN zipPath \o <<"/">> \o node.name
                     ELSE node.name
  IN IF node.isDirectory THEN addChildren(nodes, node.children, 1, currentPath)
     ELSE <<[name |-> currentPath, data |-> <<>>]>>

\* generateZip(tree): the files added to the archive.
generateZip(nodes) == addNode(nodes, <<>>, <<>>)

\* -------------------------------------------------------- handleCopyCleaned

\* entries.map(e => e.path + (e.isDirectory ? '/' : '')).join('\n')
cleanedText(entries) ==
  Join([i \in 1..Len(entries) |->
          entries[i].path \o (IF entries[i].isDirectory THEN <<"/">> ELSE <<>>)],
       "\n")

\* ------------------------------------------------------ writeTreeToDirectory

\* A rejection value: an Error with its name and message, or a value that is
\* not an Error.
NoError == [isError |-> FALSE, name |-> <<>>, message |-> <<>>]

\* error instanceof Error ? error.message : 'Unknown error'
ErrorMessage(error) ==
  IF error.isError THEN error.message ELSE <<"Unknown error">>

\* new Error(`Failed to create ${kind} "${node.name}": ${message}`)
Wrap(node, error) ==
  [isError |-> TRUE, name |-> <<"Error">>,
   message |-> <<"Failed to create ",
                 IF node.isDirectory THEN "directory" ELSE "file", " \"">>
               \o node.name \o <<"\": ">> \o ErrorMessage(error)]

\* countNodes(node): the nodes reached from the node at path p, itself included.
RECURSIVE countNodes(_, _)
RECURSIVE countChildren(_, _, _)
countChildren(nodes, children, k) ==
  IF k > Len(children) THEN 0
  ELSE countNodes(nodes, children[k]) + countChildren(nodes, children, k + 1)

countNodes(nodes, p) == 1 + countChildren(nodes, nodes[p].children, 1)

\* Math.round(x) for x = num / den >= 0: the nearest integer, halves upwards.
Round(num, den) == (2 * num + den) \div (2 * den)

\* The progress callback of handleCreateFolder: the label of the button after
\* onProgress(current, tot).
onProgress(label, current, tot) ==
  IF tot > 0 /\ current % 10 = 0
  THEN <<"Creating... ", ToString(Round(current * 100, tot)), "%">>
  ELSE label

\* A faulty variant of ChildOrder: the children taken from right to left.
ReverseOrder(children) ==
  [k \in 1..Len(children) |-> children[Len(children) + 1 - k]]

\* for (const child of node.children): the order the children are taken in.
ChildOrder(children) == children

\* An active call of writeNode: the node, the await it stands at ("enter"
\* before its first statement, "children" in its for loop, else the filesystem
\* call it awaits), and the position of its for loop.
Frame(path, at) == [path |-> path, at |-> at, next |-> 1]

\* A filesystem call: op is called on the handle made for the node at path
\* on (the picked directory for the empty path), for the node at path node.
Call(op, on, name, node) ==
  [op |-> op, on |-> on, name |-> name, node |-> node,
   result |-> "pending", error |-> NoError]

\* writeNode run from where it stands up to its next await of a filesystem
\* call, or to the return of the outermost call.  w holds the active calls of
\* writeNode (innermost last), current, the label of the button and the
\* filesystem calls made so far.
RECURSIVE Resume(_, _)
Resume(nodes, w) ==
  IF w.stack = <<>> THEN w
  ELSE
  LET top == Len(w.stack)
      f == w.stack[top]
      node == nodes[f.path]
  IN
  IF f.at = "enter"
  THEN IF node.path = <<>>
       THEN Resume(nodes, [w EXCEPT !.stack[top].at = "children"])
       ELSE [w EXCEPT
               !.current = @ + 1,
               !.label = onProgress(@, w.current + 1, countNodes(nodes, <<>>)),
               !.stack[top].at = "create",
               !.calls = Append(@, Call(IF node.isDirectory
                                        THEN "getDirectoryHandle"
                                        ELSE "getFileHandle",
                                        w.stack[top - 1].path, node.name,
                                        node.path))]
  ELSE IF f.at = "children"
  THEN IF f.next <= Len(node.children)
       THEN Resume(nodes,
              [w EXCEPT !.stack =
                 Append([@ EXCEPT ![top].next = f.next + 1],
                        Frame(ChildOrder(node.children)[f.next], "enter"))])
       ELSE Resume(nodes, [w EXCEPT !.stack = SubSeq(@, 1, top - 1)])
  ELSE w

\* The awaited filesystem call has resolved: writeNode goes on to its next
\* await.
Resolved(nodes, w) ==
  LET top == Len(w.stack)
      f == w.stack[top]
      ok == [w EXCEPT !.calls[Len(w.calls)].result = "ok"]
  IN
  IF f.at = "create"
  THEN IF nodes[f.path].isDirectory
       THEN Resume(nodes, [ok EXCEPT !.stack[top].at = "children"])
       ELSE [ok EXCEPT !.stack[top].at = "createWritable",
                       !.calls = Append(@, Call("createWritable", f.path, <<>>, f.path))]
  ELSE IF f.at = "createWritable"
  THEN [ok EXCEPT !.stack[top].at = "write",
                  !.calls = Append(@, Call("write", f.path, <<>>, f.path))]
  ELSE IF f.at = "write"
  THEN [ok EXCEPT !.stack[top].at = "close",
                  !.calls = Append(@, Call("close", f.path, <<>>, f.path))]
  ELSE Resume(nodes, [ok EXCEPT !.stack = SubSeq(@, 1, top - 1)])

\* The awaited filesystem call has rejected with error: the rejection passes
\* through the catch of every active call of writeNode, innermost first; the
\* call for the root awaits outside any try.
RECURSIVE Unwind(_, _, _)
Unwind(nodes, stack, error) ==
  IF stack = <<>> THEN error
  ELSE LET f == stack[Len(stack)] IN
       Unwind(nodes, SubSeq(stack, 1, Len(stack) - 1),
              IF f.path = <<>> THEN error ELSE Wrap(nodes[f.path], error))

\* ---------------------------------------------------------- selectDirectory

\* A faulty variant of IsAbort: no rejection is taken for a cancellation.
NeverAbort(error) == FALSE

\* error instanceof Error && error.name === 'AbortError'
IsAbort(error) == error.isError /\ error.name = <<"AbortError">>

\* ------------------------------------------------------- handleCreateFolder

ButtonLabel == <<"Create to folder (Chrome)">>

\* alert(`Error creating folder structure: ${message}`)
ErrorAlert(error) ==
  <<"Error creating folder structure: ">> \o ErrorMessage(error)

\* -------------------------------------------------------------- the inputs

\* The lines an enumerated input is made of: one for each way a line is
\* handled by processPaths.
LineSet ==
  { <<>>,                                \* blank
    <<" ">>,                             \* white space only
    <<"a">>,                             \* file a
    <<"a", "/">>,                        \* directory a
    <<"a", "/", "b">>,                   \* file a/b
    <<"a", "\\", ".", "\\", "b">>,       \* file a/b, spelled a\.\b
    <<"b", "/">>,                        \* directory b
    <<".", "/">>,                        \* normalizes to the empty path
    <<" ", ".", ".", "/", "a">>,         \* parent reference, leading blank
    <<"a", "\\", ".", ".">>,             \* parent reference after a backslash
    <<"a", " ", "/", ".">>,              \* file "a " (trailing blank kept)
    <<"a", "<", ">">>,                   \* invalid characters
    <<"C", "O", "N", "/">> }             \* reserved name, a directory

\* The input of the end-to-end test "should paste paths, preview, and
\* download zip".
SamplePaths ==
  << <<"s", "r", "c", "/", "c", "o", "m", "p", "o", "n", "e", "n", "t", "s", "/">>,
     <<"s", "r", "c", "/", "c", "o", "m", "p", "o", "n", "e", "n", "t", "s", "/",
       "B", "u", "t", "t", "o", "n", ".", "t", "s", "x">>,
     <<"s", "r", "c", "/", "c", "o", "m", "p", "o", "n", "e", "n", "t", "s", "/",
       "B", "u", "t", "t", "o", "n", ".", "t", "s", "x">>,
     <<"s", "r", "c", "/", "u", "t", "i", "l", "s", "/",
       "h", "e", "l", "p", "e", "r", "s", ".", "t", "s">>,
     <<"s", "r", "c", "/", "u", "t", "i", "l", "s", "/",
       "i", "n", "v", "a", "l", "i", "d", "<", ">", "n", "a", "m", "e", ".", "t", "s">>,
     <<"s", "r", "c", "/", "R", "E", "A", "D", "M", "E", ".", "m", "d">> >>

\* A path of MAX_DEPTH + 1 segments: a/a/.../a
DeepPath ==
  [i \in 1..(2 * MAX_DEPTH + 1) |-> IF i % 2 = 1 THEN "a" ELSE "/"]

\* The same path with an invalid character in its first segment: <a/a/.../a
DeepInvalid == <<"<">> \o DeepPath

\* Two file names that are canonically equivalent and differ as strings:
\* U+00E9, and e followed by U+0301.
EquivalentNames == << <<"U+00E9">>, <<"e", "U+0301">> >>

\* An input is input.split('\n'): its first lines spelled out, followed by
\* blankTail blank lines.  Every sequence of at most MaxLines lines of
\* LineSet, the sample, each single line followed by MAX_LINES blank lines,
\* the two deep paths and the two equivalent names.
Inputs ==
  {[lines |-> l, blankTail |-> 0] :
     l \in UNION {[1..n -> LineSet] : n \in 1..MaxLines}}
  \cup {[lines |-> SamplePaths, blankTail |-> 0]}
  \cup {[lines |-> <<DeepPath>>, blankTail |-> 0],
        [lines |-> <<DeepInvalid, <<"a", "/">> >>, blankTail |-> 0],
        [lines |-> EquivalentNames, blankTail |-> 0]}
  \cup {[lines |-> <<l>>, blankTail |-> MAX_LINES] : l \in LineSet}

\* The characters of the strings handed to the pure functions.
FnAlphabet == {"a", ".", "/", "\\", "<", ">"}

FnStrings == UNION {[1..n -> FnAlphabet] : n \in 0..MaxLen}

\* ---------------------------------------------------------------- the state

VARIABLES
  lines,         \* input.split('\n') without its blank tail
  blankTail,     \* the number of blank lines that follow
  index,         \* lines handled so far by lines.forEach
  issues,        \* processPaths: issues
  entries,       \* processPaths: entries
  seenPaths,     \* processPaths: seenPaths
  pathToEntry,   \* processPaths: pathToEntry (positions in entries)
  pc,            \* "lines" while processPaths runs, "previewed" after
  folderCount,   \* ProcessedPaths.folderCount
  fileCount,     \* ProcessedPaths.fileCount
  tree,          \* App.currentTree, as nodeMap
  zipDone,       \* handleDownloadZip has run
  zipFiles,      \* the files generateZip added
  copyDone,      \* handleCopyCleaned has run
  clipboard,     \* the text it wrote
  againDone,     \* the clipboard text has been previewed
  again,         \* processPaths of the clipboard text
  fnName,        \* the pure function under call
  fnArg,         \* its first argument
  fnOut,         \* its results, each applied to the one before
  shuffle,       \* the order the entries are handed to buildTree again
  shuffled,      \* buildTree of the entries in that order
  cpc,           \* handleCreateFolder: "idle", "picking", "writing", "returned"
  picker,        \* showDirectoryPicker: its state and its rejection
  btnDisabled,   \* createFolderBtn.disabled
  btnLabel,      \* createFolderBtn.textContent
  alerts,        \* the texts shown by alert, in order
  stack,         \* writeTreeToDirectory: the active calls of writeNode
  current,       \* writeTreeToDirectory: current
  calls,         \* the filesystem calls made, each with its outcome
  thrown         \* the rejection of writeTreeToDirectory

vars == <<lines, blankTail, index, issues, entries, seenPaths, pathToEntry, pc,
          folderCount, fileCount, tree, zipDone, zipFiles, copyDone, clipboard,
          againDone, again, fnName, fnArg, fnOut, shuffle, shuffled, cpc,
          picker, btnDisabled, btnLabel, alerts, stack, current, calls, thrown>>

procVars == <<issues, entries, seenPaths, pathToEntry>>
appVars == <<tree, zipDone, zipFiles, copyDone, clipboard, againDone, again>>
fnVars == <<fnName, fnArg, fnOut>>
shuffleVars == <<shuffle, shuffled>>
createVars == <<cpc, picker, btnDisabled, btnLabel, alerts, stack, current,
                calls, thrown>>

NoResult == [entries |-> <<>>, issues |-> <<>>, folderCount |-> 0, fileCount |-> 0]

InitApp ==
  /\ folderCount = 0
  /\ fileCount = 0
  /\ tree = RootOnly
  /\ zipDone = FALSE
  /\ zipFiles = <<>>
  /\ copyDone = FALSE
  /\ clipboard = <<>>
  /\ againDone = FALSE
  /\ again = NoResult

InitShuffle ==
  /\ shuffle = <<>>
  /\ shuffled = RootOnly

\* The create-folder button as the page shows it, and nothing picked or
\* written yet.
InitCreate ==
  /\ cpc = "idle"
  /\ picker = [state |-> "closed", error |-> NoError]
  /\ btnDisabled = FALSE
  /\ btnLabel = ButtonLabel
  /\ alerts = <<>>
  /\ stack = <<>>
  /\ current = 0
  /\ calls = <<>>
  /\ thrown = NoError

Init ==
  /\ \E in \in Inputs :
       /\ lines = in.lines
       /\ blankTail = in.blankTail
       /\ LET st == StartState(Len(in.lines) + in.blankTail) IN
            /\ issues = st.issues
            /\ entries = st.entries
            /\ seenPaths = st.seenPaths
            /\ pathToEntry = st.pathToEntry
  /\ index = 0
  /\ pc = "lines"
  /\ InitApp
  /\ fnName = "none"
  /\ fnArg = <<>>
  /\ fnOut = <<>>
  /\ InitShuffle
  /\ InitCreate

\* One call of the lines.forEach callback.
ForEachLine ==
  /\ pc = "lines"
  /\ index < Len(lines)
  /\ LET st == ProcessLine([issues |-> issues, entries |-> entries,
                            seenPaths |-> seenPaths, pathToEntry |-> pathToEntry],
                           lines[index + 1], index)
     IN /\ issues' = st.issues
        /\ entries' = st.entries
        /\ seenPaths' = st.seenPaths
        /\ pathToEntry' = st.pathToEntry
  /\ index' = index + 1
  /\ UNCHANGED <<lines, blankTail, pc, folderCount, fileCount>>
  /\ UNCHANGED appVars
  /\ UNCHANGED fnVars
  /\ UNCHANGED shuffleVars
  /\ UNCHANGED createVars

\* The callback on the blank lines of the tail: each returns at once.
SkipBlankTail ==
  /\ pc = "lines"
  /\ index = Len(lines)
  /\ blankTail > 0
  /\ index' = index + blankTail
  /\ UNCHANGED <<lines, blankTail, pc, folderCount, fileCount>>
  /\ UNCHANGED procVars
  /\ UNCHANGED appVars
  /\ UNCHANGED fnVars
  /\ UNCHANGED shuffleVars
  /\ UNCHANGED createVars

\* processPaths counts and returns, and buildTree is applied to its entries,
\* as handlePreview does.  (handlePreview trims the text before it calls
\* processPaths; here the input is the argument of processPaths itself.)
FinishPreview ==
  /\ pc = "lines"
  /\ index = Len(lines) + blankTail
  /\ folderCount' = CountWhere(entries, TRUE)
  /\ fileCount' = CountWhere(entries, FALSE)
  /\ tree' = buildTree(entries)
  /\ pc' = "previewed"
  /\ UNCHANGED <<lines, blankTail, index>>
  /\ UNCHANGED procVars
  /\ UNCHANGED <<zipDone, zipFiles, copyDone, clipboard, againDone, again>>
  /\ UNCHANGED fnVars
  /\ UNCHANGED shuffleVars
  /\ UNCHANGED createVars

\* handleDownloadZip
DownloadZip ==
  /\ pc = "previewed"
  /\ ~zipDone
  /\ zipFiles' = generateZip(tree)
  /\ zipDone' = TRUE
  /\ UNCHANGED <<lines, blankTail, index, pc, folderCount, fileCount>>
  /\ UNCHANGED procVars
  /\ UNCHANGED <<tree, copyDone, clipboard, againDone, again>>
  /\ UNCHANGED fnVars
  /\ UNCHANGED shuffleVars
  /\ UNCHANGED createVars

\* handleCopyCleaned
CopyCleaned ==
  /\ pc = "previewed"
  /\ ~copyDone
  /\ clipboard' = cleanedText(entries)
  /\ copyDone' = TRUE
  /\ UNCHANGED <<lines, blankTail, index, pc, folderCount, fileCount>>
  /\ UNCHANGED procVars
  /\ UNCHANGED <<tree, zipDone, zipFiles, againDone, again>>
  /\ UNCHANGED fnVars
  /\ UNCHANGED shuffleVars
  /\ UNCHANGED createVars

\* The cleaned list pasted back and processed again.
PreviewCleaned ==
  /\ copyDone
  /\ ~againDone
  /\ again' = processPaths(clipboard)
  /\ againDone' = TRUE
  /\ UNCHANGED <<lines, blankTail, index, pc, folderCount, fileCount>>
  /\ UNCHANGED procVars
  /\ UNCHANGED <<tree, zipDone, zipFiles, copyDone, clipboard>>
  /\ UNCHANGED fnVars
  /\ UNCHANGED shuffleVars
  /\ UNCHANGED createVars

\* buildTree applied again to the entries of the preview, handed over in
\* another order.
Rebuild ==
  /\ pc = "previewed"
  /\ ~zipDone
  /\ ~copyDone
  /\ \E p \in Permutations(1..Len(entries)) :
       /\ shuffle' = p
       /\ shuffled' = buildTree([k \in 1..Len(entries) |-> entries[p[k]]])
  /\ pc' = "rebuilt"
  /\ UNCHANGED <<lines, blankTail, index, folderCount, fileCount>>
  /\ UNCHANGED procVars
  /\ UNCHANGED appVars
  /\ UNCHANGED fnVars
  /\ UNCHANGED createVars

Next ==
  \/ ForEachLine
  \/ SkipBlankTail
  \/ FinishPreview
  \/ DownloadZip
  \/ CopyCleaned
  \/ PreviewCleaned
  \/ Rebuild

Spec == Init /\ [][Next]_vars

\* ------------------------------------------- the pure functions on their own

InitFn ==
  /\ fnArg \in FnStrings
  /\ fnName = "none"
  /\ fnOut = <<>>
  /\ lines = <<>>
  /\ blankTail = 0
  /\ index = 0
  /\ issues = <<>>
  /\ entries = <<>>
  /\ seenPaths = <<>>
  /\ pathToEntry = <<>>
  /\ pc = "idle"
  /\ InitApp
  /\ InitShuffle
  /\ InitCreate

LastArg == IF fnOut = <<>> THEN fnArg ELSE fnOut[Len(fnOut)].value

\* normalizePath, applied to the argument and then to its own result.
CallNormalizePath ==
  /\ fnName \in {"none", "normalizePath"}
  /\ Len(fnOut) < 2
  /\ fnOut # <<>> => ~fnOut[Len(fnOut)].threw
  /\ fnName' = "normalizePath"
  /\ fnOut' = Append(fnOut, normalizePath(LastArg))
  /\ UNCHANGED <<fnArg, lines, blankTail, index, pc, folderCount, fileCount>>
  /\ UNCHANGED procVars
  /\ UNCHANGED appVars
  /\ UNCHANGED shuffleVars
  /\ UNCHANGED createVars

\* sanitizeFileName, applied to the argument and then to its own result.
CallSanitizeFileName ==
  /\ fnName \in {"none", "sanitizeFileName"}
  /\ Len(fnOut) < 2
  /\ fnName' = "sanitizeFileName"
  /\ fnOut' = Append(fnOut, [threw |-> FALSE, value |-> sanitizeFileName(LastArg)])
  /\ UNCHANGED <<fnArg, lines, blankTail, index, pc, folderCount, fileCount>>
  /\ UNCHANGED procVars
  /\ UNCHANGED appVars
  /\ UNCHANGED shuffleVars
  /\ UNCHANGED createVars

NextFn ==
  \/ CallNormalizePath
  \/ CallSanitizeFileName

SpecFn == InitFn /\ [][NextFn]_vars

\* ------------------------------------------- the create-folder button alone

\* What a rejection of showDirectoryPicker can be: the AbortError of a
\* cancelled dialog, another Error, and a value that is no Error though its
\* name says AbortError.
PickerErrors ==
  { [isError |-> TRUE, name |-> <<"AbortError">>,
     message |-> <<"The user aborted a request.">>],
    [isError |-> TRUE, name |-> <<"SecurityError">>,
     message |-> <<"Must be handling a user gesture.">>],
    [isError |-> FALSE, name |-> <<"AbortError">>, message |-> <<>>] }

\* What a rejection of a filesystem call can be.
FsErrors ==
  { [isError |-> TRUE, name |-> <<"NotAllowedError">>,
     message |-> <<"Permission denied.">>],
    [isError |-> FALSE, name |-> <<>>, message |-> <<"quota">>] }

\* The state handlePreview leaves for the processed input r.
Previewed(r) ==
  /\ issues = r.issues
  /\ entries = r.entries
  /\ folderCount = r.folderCount
  /\ fileCount = r.fileCount
  /\ tree = buildTree(r.entries)
  /\ pc = "previewed"

\* The page before any preview, or after the preview of an input.
InitWrite ==
  /\ \/ /\ issues = <<>>
        /\ entries = <<>>
        /\ folderCount = 0
        /\ fileCount = 0
        /\ tree = RootOnly
        /\ pc = "idle"
     \/ \E in \in Inputs :
          /\ in.blankTail = 0
          /\ Previewed(processPaths(Join(in.lines, "\n")))
  /\ lines = <<>>
  /\ blankTail = 0
  /\ index = 0
  /\ seenPaths = <<>>
  /\ pathToEntry = <<>>
  /\ zipDone = FALSE
  /\ zipFiles = <<>>
  /\ copyDone = FALSE
  /\ clipboard = <<>>
  /\ againDone = FALSE
  /\ again = NoResult
  /\ fnName = "none"
  /\ fnArg = <<>>
  /\ fnOut = <<>>
  /\ InitShuffle
  /\ InitCreate

pageVars == <<lines, blankTail, index, pc, folderCount, fileCount>>

\* handleCreateFolder without a current tree.
ClickBeforePreview ==
  /\ cpc = "idle"
  /\ pc # "previewed"
  /\ alerts' = Append(alerts, <<"Please preview first.">>)
  /\ cpc' = "returned"
  /\ UNCHANGED <<picker, btnDisabled, btnLabel, stack, current, calls, thrown>>
  /\ UNCHANGED <<pageVars, procVars, appVars, fnVars, shuffleVars>>

\* handleCreateFolder where the File System Access API is missing:
\* selectDirectory returns null and the handler returns through finally.
ClickUnavailable ==
  /\ cpc = "idle"
  /\ pc = "previewed"
  /\ picker' = [picker EXCEPT !.state = "unavailable"]
  /\ btnDisabled' = FALSE
  /\ cpc' = "returned"
  /\ UNCHANGED <<btnLabel, alerts, stack, current, calls, thrown>>
  /\ UNCHANGED <<pageVars, procVars, appVars, fnVars, shuffleVars>>

\* handleCreateFolder up to the await of showDirectoryPicker.
ClickCreateFolder ==
  /\ cpc = "idle"
  /\ pc = "previewed"
  /\ picker' = [picker EXCEPT !.state = "open"]
  /\ cpc' = "picking"
  /\ UNCHANGED <<btnDisabled, btnLabel, alerts, stack, current, calls, thrown>>
  /\ UNCHANGED <<pageVars, procVars, appVars, fnVars, shuffleVars>>

\* writeTreeToDirectory stands at w: at an await of a filesystem call, or
\* returned, and then handleCreateFolder runs to its end.
Continue(w) ==
  /\ stack' = w.stack
  /\ current' = w.current
  /\ calls' = w.calls
  /\ IF w.stack = <<>>
     THEN /\ btnLabel' = ButtonLabel
          /\ alerts' = Append(alerts, <<"Folder structure created successfully!">>)
          /\ btnDisabled' = FALSE
          /\ cpc' = "returned"
     ELSE /\ btnLabel' = w.label
          /\ alerts' = alerts
          /\ btnDisabled' = TRUE
          /\ cpc' = "writing"

\* The picker resolves with a directory: the button is disabled and
\* writeTreeToDirectory runs to its first await.
PickerResolves ==
  /\ cpc = "picking"
  /\ picker' = [picker EXCEPT !.state = "resolved"]
  /\ Continue(Resume(tree, [stack |-> <<Frame(<<>>, "enter")>>, current |-> 0,
                            label |-> <<"Creating...">>, calls |-> calls]))
  /\ UNCHANGED thrown
  /\ UNCHANGED <<pageVars, procVars, appVars, fnVars, shuffleVars>>

\* The picker rejects: selectDirectory returns null for a cancellation and
\* throws the rejection on otherwise, into the catch of handleCreateFolder.
PickerRejects ==
  /\ cpc = "picking"
  /\ \E error \in PickerErrors :
       /\ picker' = [state |-> "rejected", error |-> error]
       /\ IF IsAbort(error)
          THEN UNCHANGED <<alerts, btnLabel>>
          ELSE /\ alerts' = Append(alerts, ErrorAlert(error))
               /\ btnLabel' = ButtonLabel
  /\ btnDisabled' = FALSE
  /\ cpc' = "returned"
  /\ UNCHANGED <<stack, current, calls, thrown>>
  /\ UNCHANGED <<pageVars, procVars, appVars, fnVars, shuffleVars>>

\* The filesystem call awaited by writeNode resolves.
FsResolves ==
  /\ cpc = "writing"
  /\ Continue(Resolved(tree, [stack |-> stack, current |-> current,
                              label |-> btnLabel, calls |-> calls]))
  /\ UNCHANGED <<picker, thrown>>
  /\ UNCHANGED <<pageVars, procVars, appVars, fnVars, shuffleVars>>

\* The filesystem call awaited by writeNode rejects: writeTreeToDirectory
\* rejects, and handleCreateFolder shows the error.
FsRejects ==
  /\ cpc = "writing"
  /\ \E error \in FsErrors :
       /\ calls' = [calls EXCEPT ![Len(calls)].result = "failed",
                                 ![Len(calls)].error = error]
       /\ thrown' = Unwind(tree, stack, error)
       /\ alerts' = Append(alerts, ErrorAlert(Unwind(tree, stack, error)))
  /\ stack' = <<>>
  /\ btnLabel' = ButtonLabel
  /\ btnDisabled' = FALSE
  /\ cpc' = "returned"
  /\ UNCHANGED <<picker, current>>
  /\ UNCHANGED <<pageVars, procVars, appVars, fnVars, shuffleVars>>

NextWrite ==
  \/ ClickBeforePreview
  \/ ClickUnavailable
  \/ ClickCreateFolder
  \/ PickerResolves
  \/ PickerRejects
  \/ FsResolves
  \/ FsRejects

SpecWrite == InitWrite /\ [][NextWrite]_vars

\* =================================================================== claims

\* The lines lines.forEach has handled so far.
Handled == 1..(IF index < Len(lines) THEN index ELSE Len(lines))

\* What a line declares: whether it yields a canonical path at all, the path
\* and the kind.
Declared(line) ==
  LET trimmed == Trim(line)
      isDirectory == trimmed # <<>> /\ trimmed[Len(trimmed)] = "/"
      norm == normalizePath(IF isDirectory
                            THEN SubSeq(trimmed, 1, Len(trimmed) - 1) ELSE trimmed)
  IN [declares |-> trimmed # <<>> /\ ~norm.threw /\ norm.value # <<>>,
      path |-> norm.value,
      isDirectory |-> isDirectory]

\* The line has a `..` segment once its backslashes are slashes.
HasParentSegment(line) ==
  LET segments == Split(BackslashesToSlashes(Trim(line)), "/")
  IN \E i \in 1..Len(segments) : segments[i] = <<".", ".">>

IssuesOfLine(i) == {k \in 1..Len(issues) : issues[k].line = i}

\* C1: a line with a `..` segment produces no entry and exactly one issue,
\* of type invalid and carrying the line's number; no path of the entries
\* has a `..` segment.
C1_ParentRefRejected ==
  /\ \A i \in Handled :
       HasParentSegment(lines[i]) =>
         /\ \A k \in 1..Len(entries) : entries[k].originalLine # i
         /\ Cardinality(IssuesOfLine(i)) = 1
         /\ \A k \in IssuesOfLine(i) : issues[k].type = "invalid"
  /\ \A k \in 1..Len(entries) :
       \A j \in 1..Len(Split(entries[k].path, "/")) :
         Split(entries[k].path, "/")[j] # <<".", ".">>

C1_Witness ==
  /\ pc = "previewed"
  /\ Len(entries) > 0
  /\ \E i \in Handled : HasParentSegment(lines[i]) /\ i > 1

EntriesAt(path) == {k \in 1..Len(entries) : entries[k].path = path}

\* What each handled line declares.
DeclaredByLine == [i \in Handled |-> Declared(lines[i])]

\* Some handled line declares the path with the kind.
DeclaredAs(path, isDirectory) ==
  \E j \in Handled :
    LET d == Declared(lines[j])
    IN d.declares /\ d.path = path /\ d.isDirectory = isDirectory

\* The first handled line that declares the path.
FirstLineOf(path) ==
  LET declaring == {j \in Handled : Declared(lines[j]).declares
                                      /\ Declared(lines[j]).path = path}
  IN CHOOSE i \in declaring : \A j \in declaring : i <= j

\* C2: when a canonical path is declared both as a file and as a directory,
\* in either order, there is a conflict issue and exactly one entry for the
\* path, a directory whose originalLine is the first line declaring the path.
C2_DirectoryWins ==
  \A i \in Handled :
    LET d == Declared(lines[i]) IN
    (d.declares /\ ~d.isDirectory /\ DeclaredAs(d.path, TRUE))
    => /\ \E k \in 1..Len(issues) :
            issues[k].type = "conflict" /\ issues[k].path = d.path
       /\ Cardinality(EntriesAt(d.path)) = 1
       /\ \A k \in EntriesAt(d.path) :
            /\ entries[k].isDirectory
            /\ entries[k].originalLine = FirstLineOf(d.path)

\* A file line, then a directory line of the same path, then a third line.
C2_Witness ==
  LET D == DeclaredByLine IN
  /\ pc = "previewed"
  /\ Len(lines) = 3
  /\ D[1].declares /\ ~D[1].isDirectory
  /\ D[2].declares /\ D[2].isDirectory
  /\ D[1].path = D[2].path
  /\ D[3].declares /\ D[3].path = D[1].path

\* C3: no two entries have the same path, and there are as many entries as
\* distinct canonical paths among the lines handled.
C3_OneEntryPerPath ==
  LET D == DeclaredByLine IN
  /\ \A k, m \in 1..Len(entries) : entries[k].path = entries[m].path => k = m
  /\ Len(entries) = Cardinality({D[i].path : i \in {j \in Handled : D[j].declares}})

C3_Witness ==
  LET D == DeclaredByLine IN
  /\ pc = "previewed"
  /\ Len(entries) = 2
  /\ \E i, j \in Handled :
       /\ i < j
       /\ D[i].declares /\ D[j].declares
       /\ D[i].path = D[j].path
       /\ D[i].isDirectory = D[j].isDirectory

IssuesOfType(iss, type) == {k \in 1..Len(iss) : iss[k].type = type}

SampleIssues ==
  /\ Len(issues) >= 2
  /\ Cardinality(IssuesOfType(issues, "duplicate")) = 1
  /\ Cardinality(IssuesOfType(issues, "sanitized")) = 1

\* C4 as stated: the sample yields one duplicate, one sanitized issue,
\* folderCount 2 and fileCount 4.
C4_SampleCounts ==
  (pc = "previewed" /\ lines = SamplePaths)
  => SampleIssues /\ folderCount = 2 /\ fileCount = 4

\* C4 as amended: the sample yields one duplicate, one sanitized issue,
\* folderCount 1 (src/components/ is its only directory line) and fileCount 4.
C4_SampleCountsAmended ==
  (pc = "previewed" /\ lines = SamplePaths)
  => SampleIssues /\ folderCount = 1 /\ fileCount = 4

C4_Witness == pc = "previewed" /\ lines = SamplePaths /\ Len(entries) = 5

HasInvalidChar(name) == \E i \in 1..Len(name) : name[i] \in INVALID_CHARS

\* C5: sanitizeFileName applied twice gives what it gives applied once, and
\* its result has no invalid character.
C5_SanitizeIdempotent ==
  (fnName = "sanitizeFileName" /\ Len(fnOut) = 2)
  => fnOut[2].value = fnOut[1].value /\ ~HasInvalidChar(fnOut[1].value)

\* The segments of a canonical path; the empty path has none.
SegmentsOf(path) == IF path = <<>> THEN <<>> ELSE Split(path, "/")

IsCanonical(path) ==
  /\ \A i \in 1..Len(path) : path[i] # "\\"
  /\ path # <<>> => path[1] # "/" /\ path[Len(path)] # "/"
  /\ \A i \in 1..Len(SegmentsOf(path)) :
       SegmentsOf(path)[i] \notin {<<>>, <<".">>, <<".", ".">>}

AllBlank == \A i \in 1..Len(lines) : Trim(lines[i]) = <<>>

\* C7: an input of blank lines only, of any length, yields no entry, no
\* issue, zero counts and a tree that is a root without children.
C7_BlankInputIsEmpty ==
  (pc = "previewed" /\ AllBlank)
  => /\ entries = <<>>
     /\ issues = <<>>
     /\ folderCount = 0 /\ fileCount = 0
     /\ DOMAIN tree = {<<>>} /\ tree[<<>>].children = <<>>

PathsAndKinds(es) ==
  [k \in 1..Len(es) |-> [path |-> es[k].path, isDirectory |-> es[k].isDirectory]]

\* C8: processing the cleaned list reports no duplicate and no conflict, only
\* issues that match one of the first run by type and path, and yields the
\* same paths and kinds in the same order.
C8_CleanedRoundTrip ==
  againDone
  => /\ IssuesOfType(again.issues, "duplicate") = {}
     /\ IssuesOfType(again.issues, "conflict") = {}
     /\ \A k \in 1..Len(again.issues) :
          \E m \in 1..Len(issues) :
            issues[m].type = again.issues[k].type /\ issues[m].path = again.issues[k].path
     /\ PathsAndKinds(again.entries) = PathsAndKinds(entries)

\* C9: every issue of every entry is also in the top-level issues list.
C9_IssuesSuperset ==
  \A k \in 1..Len(entries) :
    \A q \in 1..Len(entries[k].issues) :
      \E m \in 1..Len(issues) : issues[m] = entries[k].issues[q]

FileNodes == {p \in DOMAIN tree : p # <<>> /\ ~tree[p].isDirectory}

\* C10: generateZip adds exactly one empty file per file node of the tree,
\* at the node's path, and nothing for a directory node.
C10_ZipOnePerFileNode ==
  zipDone
  => /\ \A p \in FileNodes :
          Cardinality({k \in 1..Len(zipFiles) : zipFiles[k].name = p}) = 1
     /\ \A k \in 1..Len(zipFiles) :
          zipFiles[k].name \in FileNodes /\ zipFiles[k].data = <<>>

\* ----------------------------------------------------------------------- C11

\* C11: when a filesystem call made for a node fails, writeTreeToDirectory
\* rejects with that error wrapped once, with the kind and the name of the
\* node itself, and not wrapped again with the names of the directories
\* above it.
C11_WrappedOnce ==
  (calls # <<>> /\ calls[Len(calls)].result = "failed") =>
    thrown = Wrap(tree[calls[Len(calls)].node], calls[Len(calls)].error)

\* ----------------------------------------------------------------------- C12

\* The picker has rejected with an AbortError.
Cancelled(p) ==
  /\ p.state = "rejected"
  /\ p.error.isError
  /\ p.error.name = <<"AbortError">>

\* C12: a step in which the picker rejects with an AbortError makes no
\* filesystem call, shows no alert, leaves the button enabled, and leaves its
\* label, currentTree and currentProcessed as they were; a step in which the
\* picker rejects otherwise, or in which a filesystem call of the traversal
\* fails, shows an error alert.
C12_CancelIsNoOp ==
  [][ /\ (picker.state = "open" /\ Cancelled(picker')) =>
           /\ calls' = calls
           /\ alerts' = alerts
           /\ ~btnDisabled'
           /\ btnLabel' = btnLabel
           /\ UNCHANGED <<tree, entries, issues, folderCount, fileCount>>
      /\ (picker.state = "open" /\ picker'.state = "rejected" /\ ~Cancelled(picker')) =>
           /\ Len(alerts') = Len(alerts) + 1
           /\ alerts'[Len(alerts')] = ErrorAlert(picker'.error)
      /\ (calls' # <<>> /\ calls'[Len(calls')].result = "failed" /\ calls' # calls) =>
           /\ Len(alerts') = Len(alerts) + 1
           /\ alerts'[Len(alerts')][1] = "Error creating folder structure: "
    ]_vars

\* The picker was cancelled over a tree that has nodes to write.
C12_Witness ==
  /\ Cancelled(picker)
  /\ cpc = "returned"
  /\ DOMAIN tree # {<<>>}
  /\ calls = <<>>

\* ----------------------------------------------------------------------- C13

\* The children of every node: directories before files, and nodes of one
\* kind in the order of their names.
ChildrenInOrder(nodes) ==
  \A p \in DOMAIN nodes :
    \A i, j \in 1..Len(nodes[p].children) :
      i < j =>
        LET a == nodes[nodes[p].children[i]]
            b == nodes[nodes[p].children[j]]
        IN /\ ~(~a.isDirectory /\ b.isDirectory)
           /\ a.isDirectory = b.isDirectory => localeCompare(a.name, b.name) <= 0

\* C13: buildTree of the entries in any order is the tree of the preview, and
\* in every children list the directories come first and each kind is in the
\* order of the names.
C13_OrderIndependent ==
  pc = "rebuilt" => (shuffled = tree /\ ChildrenInOrder(shuffled))

\* No two entries have paths that localeCompare takes for equal.
DistinctInOrder ==
  \A i, j \in 1..Len(entries) :
    i # j => localeCompare(entries[i].path, entries[j].path) # 0

\* C13, amended: where no two paths of the entries compare equal, buildTree
\* of the entries in any order is the tree of the preview, and in every
\* children list the directories come first and each kind is in the order of
\* the names.
C13_OrderIndependentAmended ==
  (pc = "rebuilt" /\ DistinctInOrder) =>
    (shuffled = tree /\ ChildrenInOrder(shuffled))

\* The entries were handed over in another order, and under the root the
\* directory b precedes the file a.
C13_Witness ==
  /\ pc = "rebuilt"
  /\ DistinctInOrder
  /\ \E k \in 1..Len(shuffle) : shuffle[k] # k
  /\ tree[<<>>].children = << <<"b">>, <<"a">> >>
  /\ tree[<<"b">>].isDirectory
  /\ ~tree[<<"a">>].isDirectory

\* ----------------------------------------------------------------------- C14

\* C14: in the tree of the preview every node that has a child is a
\* directory node.
C14_ParentsAreDirectories ==
  pc = "previewed" =>
    \A p \in DOMAIN tree : tree[p].children # <<>> => tree[p].isDirectory

\* ----------------------------------------------------------------------- C15

\* C15: for every final entry, file or directory, the node at the path of the
\* entry carries every issue of the entry.
C15_NodeCarriesIssues ==
  pc = "previewed" =>
    \A k \in 1..Len(entries) :
      /\ entries[k].path \in DOMAIN tree
      /\ \A i \in 1..Len(entries[k].issues) :
           \E j \in 1..Len(tree[entries[k].path].issues) :
             tree[entries[k].path].issues[j] = entries[k].issues[i]

\* ----------------------------------------------------------------------- C16

\* C16: an entry whose path has more than MAX_DEPTH segments has the depth
\* issue as the first of its own issues.
C16_DepthIssueOnEntry ==
  pc = "previewed" =>
    \A k \in 1..Len(entries) :
      Len(Split(entries[k].path, "/")) > MAX_DEPTH =>
        /\ entries[k].issues # <<>>
        /\ entries[k].issues[1].type = "depth"

\* ----------------------------------------------------------------------- C17

\* The nodes beneath the node at path p, in pre-order.
RECURSIVE Preorder(_, _)
RECURSIVE PreorderAll(_, _, _)
PreorderAll(nodes, children, k) ==
  IF k > Len(children) THEN <<>>
  ELSE <<children[k]>> \o Preorder(nodes, children[k])
       \o PreorderAll(nodes, children, k + 1)

Preorder(nodes, p) == PreorderAll(nodes, nodes[p].children, 1)

\* The path p lies beneath the path q.
IsUnder(p, q) ==
  /\ Len(q) < Len(p)
  /\ SubSeq(p, 1, Len(q)) = q
  /\ p[Len(q) + 1] = "/"

CreateOps == {"getDirectoryHandle", "getFileHandle"}

\* The positions in calls of the create calls for the node at path p.
CreatedAt(p) == {k \in 1..Len(calls) : calls[k].op \in CreateOps /\ calls[k].node = p}

\* C17: at most the last filesystem call is outstanding or failed, so that
\* the calls are made one after the other and none follows a failure; every
\* call creates or writes, and none is for the root; the create calls follow
\* the pre-order of the tree, each node created at most once; a call for a
\* node comes after the resolved create call of every directory above it;
\* and a child is created only after its siblings to the left.
C17_SequentialPreorder ==
  LET order == Preorder(tree, <<>>)
      Pos(p) == CHOOSE i \in 1..Len(order) : order[i] = p
  IN
  /\ \A k \in 1..Len(calls) :
       /\ calls[k].result # "ok" => k = Len(calls)
       /\ calls[k].op \in CreateOps \cup {"createWritable", "write", "close"}
       /\ calls[k].node # <<>>
       /\ \E i \in 1..Len(order) : order[i] = calls[k].node
       /\ \A q \in DOMAIN tree :
            IsUnder(calls[k].node, q) =>
              \E j \in 1..(k - 1) :
                /\ calls[j].op = "getDirectoryHandle"
                /\ calls[j].node = q
                /\ calls[j].result = "ok"
  /\ \A j, k \in 1..Len(calls) :
       (j < k /\ calls[j].op \in CreateOps /\ calls[k].op \in CreateOps) =>
         Pos(calls[j].node) < Pos(calls[k].node)
  /\ \A p \in DOMAIN tree :
       \A i, j \in 1..Len(tree[p].children) :
         (i < j /\ CreatedAt(tree[p].children[j]) # {}) =>
           \E a \in CreatedAt(tree[p].children[i]) :
             \A b \in CreatedAt(tree[p].children[j]) : a < b

\* A file beneath a created directory failed while the root has a child left
\* to write: the directory b, the file a/b beneath a, and a call that failed.
C17_Witness ==
  /\ cpc = "returned"
  /\ Len(calls) > 2
  /\ calls[Len(calls)].result = "failed"
  /\ \E j, k \in 1..Len(calls) :
       /\ j < k
       /\ calls[j].op = "getDirectoryHandle"
       /\ IsUnder(calls[k].node, calls[j].node)
  /\ \E p \in DOMAIN tree : p # <<>> /\ CreatedAt(p) = {}

====
